---- MODULE Spec2Model ----
(***************************************************************************)
(* Model of the grid/connectivity data model of flow_grid.rs: FlowGrid,    *)
(* FlowCell, CellColor, Direction and the public mutators of FlowGrid.     *)
(* Every operation of the source is a pure operator over a grid record     *)
(* g = [next_color_id, cells, width, height, source_index]; the actions    *)
(* apply these operators to the current grid and store the result.         *)
(***************************************************************************)
EXTENDS Integers, Sequences, FiniteSets, TLC

VARIABLES
    next_color_id,  \* FlowGrid.next_color_id
    cells,          \* FlowGrid.cells, indexed 0 .. width*height-1
    width,          \* FlowGrid.width
    height,         \* FlowGrid.height
    source_index,   \* FlowGrid.source_index, entry of color id c is source_index[c+1]
    returned,       \* what the latest public call returned: "true", "false" or "panic"
    steps           \* the number of public calls made, counted on grids of 3 cells or more

vars == <<next_color_id, cells, width, height, source_index, returned, steps>>

(***************************************************************************)
(* Bounds of the model.                                                    *)
(***************************************************************************)
\* largest color id a caller passes or try_set_new_source assigns
MaxColorId == 1
\* largest number of public calls made on a grid of SmallShapes
MaxStepsSmall == 9
\* largest number of public calls made on a grid of MediumShapes
MaxStepsMedium == 6
\* largest number of public calls made on a grid of LargeShapes
MaxStepsLarge == 4
\* largest row a caller addresses on a grid of LargeShapes
MaxRowLarge == 0
\* largest number of public calls made on a grid of ChainShapes
MaxStepsChain == 5

\* the number of calls explored on the grids of RingShapes
MaxStepsRing == 4

(***************************************************************************)
(* Option<usize>::None, Direction, CellColor, FlowCell                     *)
(***************************************************************************)
None == -1

Direction == {"Up", "Down", "Left", "Right"}

opposite(direction) ==
    CASE direction = "Up" -> "Down"
      [] direction = "Down" -> "Up"
      [] direction = "Left" -> "Right"
      [] direction = "Right" -> "Left"

Empty(id) == [tag |-> "Empty", id |-> id]

Colored(id) == [tag |-> "Colored", id |-> id]

\* can_colors_connect with the match on the ids dropped: any two colors connect
can_colors_connect_any(color1, color2) == TRUE

can_colors_connect(color1, color2) ==
    IF color1.tag = "Colored" /\ color2.tag = "Colored"
    THEN color1.id = color2.id
    ELSE TRUE

empty_with_id(empty_index) ==
    [color |-> Empty(empty_index),
     is_source |-> FALSE,
     is_connected_up |-> FALSE,
     is_connected_down |-> FALSE,
     is_connected_left |-> FALSE,
     is_connected_right |-> FALSE]

is_direction_connected(cell, direction) ==
    CASE direction = "Up" -> cell.is_connected_up
      [] direction = "Down" -> cell.is_connected_down
      [] direction = "Left" -> cell.is_connected_left
      [] direction = "Right" -> cell.is_connected_right

add_connection(cell, direction) ==
    CASE direction = "Up" -> [cell EXCEPT !.is_connected_up = TRUE]
      [] direction = "Down" -> [cell EXCEPT !.is_connected_down = TRUE]
      [] direction = "Left" -> [cell EXCEPT !.is_connected_left = TRUE]
      [] direction = "Right" -> [cell EXCEPT !.is_connected_right = TRUE]

\* remove_connection whose Left arm clears the flag of the Right arm
remove_connection_left_as_right(cell, direction) ==
    CASE direction = "Up" -> [cell EXCEPT !.is_connected_up = FALSE]
      [] direction = "Down" -> [cell EXCEPT !.is_connected_down = FALSE]
      [] direction = "Left" -> [cell EXCEPT !.is_connected_right = FALSE]
      [] direction = "Right" -> [cell EXCEPT !.is_connected_right = FALSE]

remove_connection(cell, direction) ==
    CASE direction = "Up" -> [cell EXCEPT !.is_connected_up = FALSE]
      [] direction = "Down" -> [cell EXCEPT !.is_connected_down = FALSE]
      [] direction = "Left" -> [cell EXCEPT !.is_connected_left = FALSE]
      [] direction = "Right" -> [cell EXCEPT !.is_connected_right = FALSE]

num_connections(cell) ==
    (IF cell.is_connected_up THEN 1 ELSE 0)
    + (IF cell.is_connected_down THEN 1 ELSE 0)
    + (IF cell.is_connected_left THEN 1 ELSE 0)
    + (IF cell.is_connected_right THEN 1 ELSE 0)

\* has_open_connections without the stricter limit of a source
has_open_connections_no_source(cell) ==
    IF num_connections(cell) >= 2 THEN FALSE ELSE TRUE

has_open_connections(cell) ==
    IF num_connections(cell) >= 2 THEN FALSE
    ELSE IF cell.is_source /\ num_connections(cell) >= 1 THEN FALSE
    ELSE TRUE

(***************************************************************************)
(* FlowGrid: construction and index arithmetic                             *)
(***************************************************************************)
with_size(w, h) ==
    [next_color_id |-> 0,
     cells |-> [i \in 0 .. (w * h - 1) |-> empty_with_id(i)],
     width |-> w,
     height |-> h,
     source_index |-> << >>]

\* number of cells, self.cells.len()
cells_len(g) == g.width * g.height

get_index(g, row, col) ==
    IF row < g.height /\ col < g.width THEN row * g.width + col ELSE None

get_offset_index(g, row, col, direction) ==
    CASE direction = "Up" -> IF row > 0 THEN get_index(g, row - 1, col) ELSE None
      [] direction = "Down" -> get_index(g, row + 1, col)
      [] direction = "Left" -> IF col > 0 THEN get_index(g, row, col - 1) ELSE None
      [] direction = "Right" -> get_index(g, row, col + 1)

offset_index(g, index, direction) ==
    IF index >= cells_len(g) THEN None
    ELSE CASE direction = "Up" ->
                IF index >= g.width THEN index - g.width ELSE None
           [] direction = "Down" ->
                IF index + g.width < cells_len(g) THEN index + g.width ELSE None
           [] direction = "Left" ->
                IF index % g.width > 0 THEN index - 1 ELSE None
           [] direction = "Right" ->
                IF index + 1 < cells_len(g) /\ (index + 1) % g.width # 0
                THEN index + 1 ELSE None

get_offset_row_col(g, row, col, direction) ==
    CASE direction = "Up" ->
            IF row > 0 THEN <<row - 1, col>> ELSE <<None, None>>
      [] direction = "Down" ->
            IF row + 1 < g.height THEN <<row + 1, col>> ELSE <<None, None>>
      [] direction = "Left" ->
            IF col > 0 THEN <<row, col - 1>> ELSE <<None, None>>
      [] direction = "Right" ->
            IF col + 1 < g.width THEN <<row, col + 1>> ELSE <<None, None>>

(***************************************************************************)
(* Connectivity and propagation engine.  A walk that hits an unwrap() or   *)
(* expect() on a missing neighbor aborts the program: panic = TRUE.        *)
(***************************************************************************)
\* the order in which connect_core looks for the next cell of its walk
core_order == <<"Up", "Down", "Left", "Right">>

\* next_params that never continues the walk: only the first cell is recolored
next_params_stop(g, index, new_color) == [kind |-> "None"]

\* next_params that keeps the direction of travel instead of turning it
\* back toward the cell the walk comes from
next_params_same_direction(g, index, new_color) ==
    LET cell == g.cells[index]
        hit(k) == /\ is_direction_connected(cell, core_order[k])
                  /\ LET oi == offset_index(g, index, core_order[k])
                     IN  oi = None \/ new_color # g.cells[oi].color
        hits == {k \in 1 .. 4 : hit(k)}
    IN  IF hits = {} THEN [kind |-> "None"]
        ELSE LET first == CHOOSE k \in hits : \A j \in hits : k <= j
                 oi == offset_index(g, index, core_order[first])
             IN  IF oi = None THEN [kind |-> "panic"]
                 ELSE [kind |-> "Some", index |-> oi,
                       direction |-> core_order[first]]

\* connect_core, the if / else-if chain that picks next_params: the first
\* direction, in core_order, toward which the cell is connected and whose
\* neighbor does not carry new_color yet
next_params(g, index, new_color) ==
    LET cell == g.cells[index]
        hit(k) == /\ is_direction_connected(cell, core_order[k])
                  /\ LET oi == offset_index(g, index, core_order[k])
                     IN  oi = None \/ new_color # g.cells[oi].color
        hits == {k \in 1 .. 4 : hit(k)}
    IN  IF hits = {} THEN [kind |-> "None"]
        ELSE LET first == CHOOSE k \in hits : \A j \in hits : k <= j
                 oi == offset_index(g, index, core_order[first])
             IN  IF oi = None THEN [kind |-> "panic"]
                 ELSE [kind |-> "Some", index |-> oi,
                       direction |-> opposite(core_order[first])]

RECURSIVE connect_core_loop(_, _, _, _, _)
\* one iteration of the loop of connect_core; iters counts the iterations
\* made so far and written is the set of cells whose color was overwritten
connect_core_loop(g, index, direction, iters, written) ==
    LET oi == offset_index(g, index, direction)
    IN  IF oi = None
        THEN [g |-> g, panic |-> TRUE, iters |-> iters + 1, written |-> written,
              twice |-> FALSE]
        ELSE
        LET new_color == g.cells[oi].color
            cell1 == add_connection(g.cells[index], direction)
            g1 == [g EXCEPT !.cells[index] = cell1]
        IN  IF new_color = cell1.color
            THEN [g |-> g1, panic |-> FALSE, iters |-> iters + 1,
                  written |-> written, twice |-> FALSE]
            ELSE
            LET g2 == [g1 EXCEPT !.cells[index].color = new_color]
                np == next_params(g2, index, new_color)
            IN  IF np.kind = "panic"
                THEN [g |-> g2, panic |-> TRUE, iters |-> iters + 1,
                      written |-> written \cup {index},
                      twice |-> index \in written]
                ELSE IF np.kind = "None"
                THEN [g |-> g2, panic |-> FALSE, iters |-> iters + 1,
                      written |-> written \cup {index},
                      twice |-> index \in written]
                ELSE LET r == connect_core_loop(g2, np.index, np.direction,
                                                iters + 1, written \cup {index})
                     IN  [r EXCEPT !.twice = r.twice \/ index \in written]

\* connect_core that sets the flag of the first cell and recolors nothing
connect_core_flags_only(g, index, direction) ==
    [g |-> [g EXCEPT !.cells[index] = add_connection(g.cells[index], direction)],
     panic |-> FALSE, iters |-> 1, written |-> {}, twice |-> FALSE]

connect_core(g, index, direction) ==
    connect_core_loop(g, index, direction, 0, {})

\* reset_if_loose that resets a cell left with one connection as well
reset_if_loose_one_left(cell, index) ==
    IF num_connections(cell) <= 1 /\ ~cell.is_source
    THEN [cell EXCEPT !.color = Empty(index)]
    ELSE cell

\* reset_if_loose that resets a source as well
reset_if_loose_source_too(cell, index) ==
    IF num_connections(cell) = 0
    THEN [cell EXCEPT !.color = Empty(index)]
    ELSE cell

\* reset_if_loose that never resets the color
reset_if_loose_never(cell, index) == cell

\* try_disconnect, what it does to an endpoint once the flag is cleared: a
\* cell left with no connection that is not a source gets Empty(own index)
reset_if_loose(cell, index) ==
    IF num_connections(cell) = 0 /\ ~cell.is_source
    THEN [cell EXCEPT !.color = Empty(index)]
    ELSE cell

try_disconnect(g, row, col, direction) ==
    LET index == get_index(g, row, col)
        other_index == get_offset_index(g, row, col, direction)
    IN  IF index = None \/ other_index = None THEN [g |-> g, ret |-> "false"]
        ELSE IF ~is_direction_connected(g.cells[index], direction)
        THEN [g |-> g, ret |-> "false"]
        ELSE IF ~is_direction_connected(g.cells[other_index], opposite(direction))
        THEN [g |-> g, ret |-> "false"]
        ELSE
        LET cell == reset_if_loose(remove_connection(g.cells[index], direction), index)
            g1 == [g EXCEPT !.cells[index] = cell]
            offset_cell == reset_if_loose(
                               remove_connection(g1.cells[other_index],
                                                 opposite(direction)),
                               other_index)
        IN  [g |-> [g1 EXCEPT !.cells[other_index] = offset_cell], ret |-> "true"]

\* try_connect that never swaps core_params1 and core_params2
try_connect_no_swap(g, row, col, direction) ==
    LET i1 == get_index(g, row, col)
        i2 == get_offset_index(g, row, col, direction)
    IN  IF i1 = None \/ i2 = None THEN [g |-> g, ret |-> "false"]
        ELSE
        LET cell1 == g.cells[i1]
            cell2 == g.cells[i2]
        IN  IF ~has_open_connections(cell1) \/ ~has_open_connections(cell2)
            THEN [g |-> g, ret |-> "false"]
            ELSE IF is_direction_connected(cell1, direction)
                    \/ is_direction_connected(cell2, opposite(direction))
            THEN [g |-> g, ret |-> "false"]
            ELSE IF ~can_colors_connect(cell1.color, cell2.color)
            THEN [g |-> g, ret |-> "false"]
            ELSE
            LET swap == FALSE
                core_params1 == IF swap THEN <<i2, opposite(direction)>>
                                ELSE <<i1, direction>>
                core_params2 == IF swap THEN <<i1, direction>>
                                ELSE <<i2, opposite(direction)>>
                r1 == connect_core(g, core_params1[1], core_params1[2])
            IN  IF r1.panic THEN [g |-> r1.g, ret |-> "panic"]
                ELSE LET r2 == connect_core(r1.g, core_params2[1], core_params2[2])
                     IN  [g |-> r2.g, ret |-> IF r2.panic THEN "panic" ELSE "true"]

\* try_connect that always starts the propagation from the neighbor cell
try_connect_swap_always(g, row, col, direction) ==
    LET i1 == get_index(g, row, col)
        i2 == get_offset_index(g, row, col, direction)
    IN  IF i1 = None \/ i2 = None THEN [g |-> g, ret |-> "false"]
        ELSE
        LET cell1 == g.cells[i1]
            cell2 == g.cells[i2]
        IN  IF ~has_open_connections(cell1) \/ ~has_open_connections(cell2)
            THEN [g |-> g, ret |-> "false"]
            ELSE IF is_direction_connected(cell1, direction)
                    \/ is_direction_connected(cell2, opposite(direction))
            THEN [g |-> g, ret |-> "false"]
            ELSE IF ~can_colors_connect(cell1.color, cell2.color)
            THEN [g |-> g, ret |-> "false"]
            ELSE
            LET swap == TRUE
                core_params1 == IF swap THEN <<i2, opposite(direction)>>
                                ELSE <<i1, direction>>
                core_params2 == IF swap THEN <<i1, direction>>
                                ELSE <<i2, opposite(direction)>>
                r1 == connect_core(g, core_params1[1], core_params1[2])
            IN  IF r1.panic THEN [g |-> r1.g, ret |-> "panic"]
                ELSE LET r2 == connect_core(r1.g, core_params2[1], core_params2[2])
                     IN  [g |-> r2.g, ret |-> IF r2.panic THEN "panic" ELSE "true"]

try_connect(g, row, col, direction) ==
    LET i1 == get_index(g, row, col)
        i2 == get_offset_index(g, row, col, direction)
    IN  IF i1 = None \/ i2 = None THEN [g |-> g, ret |-> "false"]
        ELSE
        LET cell1 == g.cells[i1]
            cell2 == g.cells[i2]
        IN  IF ~has_open_connections(cell1) \/ ~has_open_connections(cell2)
            THEN [g |-> g, ret |-> "false"]
            ELSE IF is_direction_connected(cell1, direction)
                    \/ is_direction_connected(cell2, opposite(direction))
            THEN [g |-> g, ret |-> "false"]
            ELSE IF ~can_colors_connect(cell1.color, cell2.color)
            THEN [g |-> g, ret |-> "false"]
            ELSE
            LET swap == cell1.color.tag = "Colored"
                core_params1 == IF swap THEN <<i2, opposite(direction)>>
                                ELSE <<i1, direction>>
                core_params2 == IF swap THEN <<i1, direction>>
                                ELSE <<i2, opposite(direction)>>
                r1 == connect_core(g, core_params1[1], core_params1[2])
            IN  IF r1.panic THEN [g |-> r1.g, ret |-> "panic"]
                ELSE LET r2 == connect_core(r1.g, core_params2[1], core_params2[2])
                     IN  [g |-> r2.g, ret |-> IF r2.panic THEN "panic" ELSE "true"]

RECURSIVE are_cells_connected_core(_, _, _, _, _)
\* are_cells_connected_from with the Up and Down blocks only
are_cells_connected_from_vertical(g, original_index, from_index, from_direction, to_index) ==
    \E j \in 1 .. 2 :
        /\ is_direction_connected(g.cells[from_index], core_order[j])
        /\ from_direction # core_order[j]
        /\ LET next_index == offset_index(g, from_index, core_order[j])
           IN  /\ next_index # None
               /\ are_cells_connected_core(
                      g,
                      IF original_index # None THEN original_index ELSE from_index,
                      next_index, opposite(core_order[j]), to_index)

\* the four if-blocks of are_cells_connected_core: the result is true when the
\* walk into one of the connected directions, other than from_direction,
\* finds to_index
are_cells_connected_from(g, original_index, from_index, from_direction, to_index) ==
    \E j \in 1 .. 4 :
        /\ is_direction_connected(g.cells[from_index], core_order[j])
        /\ from_direction # core_order[j]
        /\ LET next_index == offset_index(g, from_index, core_order[j])
           IN  /\ next_index # None
               /\ are_cells_connected_core(
                      g,
                      IF original_index # None THEN original_index ELSE from_index,
                      next_index, opposite(core_order[j]), to_index)

are_cells_connected_core(g, original_index, from_index, from_direction, to_index) ==
    IF from_index = original_index THEN FALSE
    ELSE IF from_index = to_index THEN TRUE
    ELSE are_cells_connected_from(g, original_index, from_index, from_direction,
                                  to_index)

are_cells_connected(g, row1, col1, row2, col2) ==
    IF row1 = row2 /\ col1 = col2 THEN TRUE
    ELSE
    LET index1 == get_index(g, row1, col1)
        index2 == get_index(g, row2, col2)
    IN  IF index1 = None THEN FALSE
        ELSE IF index2 = None THEN FALSE
        ELSE IF g.cells[index1].color # g.cells[index2].color THEN FALSE
        ELSE are_cells_connected_core(g, None, index1, "None", index2)

\* reached_origin that never recognizes the cell the walk started from
reached_origin_never(original_index, from_index) == FALSE

\* are_cells_connected_core, the first test: the walk is back on the cell it
\* started from
reached_origin(original_index, from_index) == from_index = original_index

RECURSIVE are_cells_connected_core_calls(_, _, _, _, _, _)
RECURSIVE are_cells_connected_blocks_calls(_, _, _, _, _, _, _)
\* are_cells_connected_core with its calls counted: budget is the number of
\* calls still allowed, and the result holds what the walk found, the budget
\* left, and whether a call was needed when none was left
are_cells_connected_core_calls(g, original_index, from_index, from_direction, to_index, budget) ==
    IF budget = 0 THEN [found |-> FALSE, budget |-> 0, out |-> TRUE]
    ELSE IF reached_origin(original_index, from_index)
    THEN [found |-> FALSE, budget |-> budget - 1, out |-> FALSE]
    ELSE IF from_index = to_index
    THEN [found |-> TRUE, budget |-> budget - 1, out |-> FALSE]
    ELSE are_cells_connected_blocks_calls(
             g, IF original_index # None THEN original_index ELSE from_index,
             from_index, from_direction, to_index, budget - 1, 1)

\* the if-blocks of are_cells_connected_core from the k-th on, in core_order:
\* a block that finds to_index returns at once, the others fall through
are_cells_connected_blocks_calls(g, next_original, from_index, from_direction, to_index, budget, k) ==
    IF k > 4 THEN [found |-> FALSE, budget |-> budget, out |-> FALSE]
    ELSE
    LET next_index == offset_index(g, from_index, core_order[k])
    IN  IF /\ is_direction_connected(g.cells[from_index], core_order[k])
           /\ from_direction # core_order[k]
           /\ next_index # None
        THEN LET r == are_cells_connected_core_calls(
                          g, next_original, next_index, opposite(core_order[k]),
                          to_index, budget)
             IN  IF r.out \/ r.found THEN r
                 ELSE are_cells_connected_blocks_calls(
                          g, next_original, from_index, from_direction,
                          to_index, r.budget, k + 1)
        ELSE are_cells_connected_blocks_calls(
                 g, next_original, from_index, from_direction, to_index,
                 budget, k + 1)

(***************************************************************************)
(* Source registry and source placement / removal                          *)
(***************************************************************************)
\* self.source_index.get(color_id): the entry of color_id, or None
source_index_get(g, color_id) ==
    IF color_id < Len(g.source_index) THEN g.source_index[color_id + 1]
    ELSE <<None, None>>

\* whether self.source_index.get(color_id) is Some
source_index_has(g, color_id) == color_id < Len(g.source_index)

\* register_source that overwrites the newest source of a full entry
register_source_keep_oldest(g, color_id, index) ==
    IF color_id < Len(g.source_index)
    THEN LET entry == g.source_index[color_id + 1]
             new_entry == IF entry[1] = None THEN <<index, entry[2]>>
                          ELSE <<entry[1], index>>
         IN  [g EXCEPT !.source_index[color_id + 1] = new_entry]
    ELSE [g EXCEPT !.source_index =
              g.source_index
              \o [k \in 1 .. (color_id - Len(g.source_index)) |-> <<None, None>>]
              \o << <<index, None>> >>]

\* try_set_missing_source, the registration of index under color_id
register_source(g, color_id, index) ==
    IF color_id < Len(g.source_index)
    THEN LET entry == g.source_index[color_id + 1]
             new_entry == IF entry[1] = None THEN <<index, entry[2]>>
                          ELSE IF entry[2] = None THEN <<entry[1], index>>
                          ELSE <<entry[2], index>>
         IN  [g EXCEPT !.source_index[color_id + 1] = new_entry]
    ELSE [g EXCEPT !.source_index =
              g.source_index
              \o [k \in 1 .. (color_id - Len(g.source_index)) |-> <<None, None>>]
              \o << <<index, None>> >>]

\* the order in which try_set_missing_source looks for the cell's connection
set_source_order == <<"Up", "Down", "Left", "Right">>

\* the order in which try_remove_source looks for the cell's connection
remove_source_order == <<"Down", "Left", "Right", "Up">>

\* the order in which remove_tail looks for the tail's connection
remove_tail_order == <<"Down", "Up", "Left", "Right">>

\* the first direction of order toward which cell is connected, or "None"
first_connected(cell, order) ==
    LET hits == {k \in 1 .. 4 : is_direction_connected(cell, order[k])}
    IN  IF hits = {} THEN "None"
        ELSE order[CHOOSE k \in hits : \A j \in hits : k <= j]

\* try_set_missing_source without the check of the number of connections
try_set_missing_source_any_degree(g, row, col, color_id) ==
    LET index == get_index(g, row, col)
    IN  IF index = None THEN [g |-> g, ret |-> "false"]
        ELSE IF g.cells[index].is_source THEN [g |-> g, ret |-> "false"]
        ELSE IF ~can_colors_connect(g.cells[index].color, Colored(color_id))
        THEN [g |-> g, ret |-> "false"]
        ELSE
        LET g1 == register_source(g, color_id, index)
            g2 == [g1 EXCEPT !.cells[index].is_source = TRUE,
                             !.cells[index].color = Colored(color_id)]
            direction == first_connected(g2.cells[index], set_source_order)
        IN  IF direction = "None" THEN [g |-> g2, ret |-> "true"]
            ELSE IF offset_index(g2, index, direction) = None
            THEN [g |-> g2, ret |-> "panic"]
            ELSE LET r == connect_core(g2, offset_index(g2, index, direction),
                                       opposite(direction))
                 IN  [g |-> r.g, ret |-> IF r.panic THEN "panic" ELSE "true"]

try_set_missing_source(g, row, col, color_id) ==
    LET index == get_index(g, row, col)
    IN  IF index = None THEN [g |-> g, ret |-> "false"]
        ELSE IF g.cells[index].is_source THEN [g |-> g, ret |-> "false"]
        ELSE IF num_connections(g.cells[index]) > 1 THEN [g |-> g, ret |-> "false"]
        ELSE IF ~can_colors_connect(g.cells[index].color, Colored(color_id))
        THEN [g |-> g, ret |-> "false"]
        ELSE
        LET g1 == register_source(g, color_id, index)
            g2 == [g1 EXCEPT !.cells[index].is_source = TRUE,
                             !.cells[index].color = Colored(color_id)]
            direction == first_connected(g2.cells[index], set_source_order)
        IN  IF direction = "None" THEN [g |-> g2, ret |-> "true"]
            ELSE IF offset_index(g2, index, direction) = None
            THEN [g |-> g2, ret |-> "panic"]
            ELSE LET r == connect_core(g2, offset_index(g2, index, direction),
                                       opposite(direction))
                 IN  [g |-> r.g, ret |-> IF r.panic THEN "panic" ELSE "true"]

\* advance_next_color_id that moves to a fresh id after every placement
advance_next_color_id_always(g, id) == id + 1

\* try_set_new_source, the while loop: the first id from id on whose
\* registry entry is not (Some, Some)
RECURSIVE advance_next_color_id(_, _)
advance_next_color_id(g, id) ==
    LET entry == source_index_get(g, id)
    IN  IF source_index_has(g, id) /\ entry[1] # None /\ entry[2] # None
        THEN advance_next_color_id(g, id + 1)
        ELSE id

try_set_new_source(g, row, col) ==
    LET r == try_set_missing_source(g, row, col, g.next_color_id)
    IN  IF r.ret = "true"
        THEN [g |-> [r.g EXCEPT !.next_color_id =
                         advance_next_color_id(r.g, r.g.next_color_id)],
              ret |-> "true"]
        ELSE r

\* rewind_next_color_id that never rewinds
rewind_next_color_id_never(next_id, color_id) == next_id

\* try_remove_source, the rewind of next_color_id to a freed smaller id
rewind_next_color_id(next_id, color_id) ==
    IF color_id < next_id THEN color_id ELSE next_id

\* unregister_source that clears the first slot without moving the second
\* source into it
unregister_source_no_shift(entry, index) ==
    LET e1 == IF entry[1] # None /\ entry[1] = index
              THEN <<None, entry[2]>> ELSE entry
    IN  IF e1[2] # None /\ e1[2] = index THEN <<e1[1], None>> ELSE e1

\* unregister_source that leaves the entry as it is
unregister_source_keep(entry, index) == entry

\* try_remove_source, the update of the registry entry of color_id
unregister_source(entry, index) ==
    LET e1 == IF entry[1] # None /\ entry[1] = index
              THEN <<entry[2], None>> ELSE entry
    IN  IF e1[2] # None /\ e1[2] = index THEN <<e1[1], None>> ELSE e1

try_remove_source(g, row, col) ==
    LET index == get_index(g, row, col)
    IN  IF index = None THEN [g |-> g, ret |-> "false"]
        ELSE IF ~g.cells[index].is_source THEN [g |-> g, ret |-> "false"]
        ELSE IF g.cells[index].color.tag # "Colored" THEN [g |-> g, ret |-> "panic"]
        ELSE
        LET color_id == g.cells[index].color.id
            g1 == [g EXCEPT !.cells[index].is_source = FALSE]
        IN  IF ~source_index_has(g1, color_id) THEN [g |-> g1, ret |-> "panic"]
            ELSE
            LET index_entry == unregister_source(g1.source_index[color_id + 1], index)
                g2 == [g1 EXCEPT !.source_index[color_id + 1] = index_entry,
                                 !.next_color_id =
                                     rewind_next_color_id(g1.next_color_id, color_id)]
                should_decolor ==
                    \/ num_connections(g2.cells[index]) = 0
                    \/ IF index_entry[1] # None
                       THEN ~are_cells_connected(g2, row, col,
                                                 index_entry[1] \div g2.width,
                                                 index_entry[1] % g2.width)
                       ELSE TRUE
            IN  IF ~should_decolor THEN [g |-> g2, ret |-> "true"]
                ELSE
                LET g3 == [g2 EXCEPT !.cells[index].color = Empty(index)]
                    direction == first_connected(g3.cells[index], remove_source_order)
                IN  IF direction = "None" THEN [g |-> g3, ret |-> "true"]
                    ELSE IF offset_index(g3, index, direction) = None
                    THEN [g |-> g3, ret |-> "panic"]
                    ELSE LET r == connect_core(g3, offset_index(g3, index, direction),
                                               opposite(direction))
                         IN  [g |-> r.g, ret |-> IF r.panic THEN "panic" ELSE "true"]

\* the walk that an expect on a missing neighbor aborts before it starts
no_walk(g) ==
    [g |-> g, panic |-> TRUE, iters |-> 0, written |-> {}, twice |-> FALSE]

\* try_connect, the two calls of connect_core it makes, in order: the walk
\* from the first parameters, then the walk from the second on the grid the
\* first one left
try_connect_walks(g, row, col, direction) ==
    IF try_connect(g, row, col, direction).ret = "false" THEN <<>>
    ELSE
    LET i1 == get_index(g, row, col)
        i2 == get_offset_index(g, row, col, direction)
        swap == g.cells[i1].color.tag = "Colored"
        core_params1 == IF swap THEN <<i2, opposite(direction)>>
                        ELSE <<i1, direction>>
        core_params2 == IF swap THEN <<i1, direction>>
                        ELSE <<i2, opposite(direction)>>
        r1 == connect_core(g, core_params1[1], core_params1[2])
    IN  IF r1.panic THEN <<r1>>
        ELSE <<r1, connect_core(r1.g, core_params2[1], core_params2[2])>>

\* try_set_missing_source, the call of connect_core it makes once the cell
\* is registered and colored: from the first connected neighbor, toward
\* the cell
try_set_missing_source_walks(g, row, col, color_id) ==
    IF try_set_missing_source(g, row, col, color_id).ret = "false" THEN <<>>
    ELSE
    LET index == get_index(g, row, col)
        g1 == register_source(g, color_id, index)
        g2 == [g1 EXCEPT !.cells[index].is_source = TRUE,
                         !.cells[index].color = Colored(color_id)]
        direction == first_connected(g2.cells[index], set_source_order)
    IN  IF direction = "None" THEN <<>>
        ELSE IF offset_index(g2, index, direction) = None THEN <<no_walk(g2)>>
        ELSE <<connect_core(g2, offset_index(g2, index, direction),
                            opposite(direction))>>

\* try_remove_source, the call of connect_core it makes when the cell is
\* decolored: from the first connected neighbor, toward the cell
try_remove_source_walks(g, row, col) ==
    LET index == get_index(g, row, col)
    IN  IF index = None THEN <<>>
        ELSE IF ~g.cells[index].is_source THEN <<>>
        ELSE IF g.cells[index].color.tag # "Colored" THEN <<>>
        ELSE
        LET color_id == g.cells[index].color.id
            g1 == [g EXCEPT !.cells[index].is_source = FALSE]
        IN  IF ~source_index_has(g1, color_id) THEN <<>>
            ELSE
            LET index_entry == unregister_source(g1.source_index[color_id + 1], index)
                g2 == [g1 EXCEPT !.source_index[color_id + 1] = index_entry,
                                 !.next_color_id =
                                     rewind_next_color_id(g1.next_color_id, color_id)]
                should_decolor ==
                    \/ num_connections(g2.cells[index]) = 0
                    \/ IF index_entry[1] # None
                       THEN ~are_cells_connected(g2, row, col,
                                                 index_entry[1] \div g2.width,
                                                 index_entry[1] % g2.width)
                       ELSE TRUE
            IN  IF ~should_decolor THEN <<>>
                ELSE
                LET g3 == [g2 EXCEPT !.cells[index].color = Empty(index)]
                    direction == first_connected(g3.cells[index], remove_source_order)
                IN  IF direction = "None" THEN <<>>
                    ELSE IF offset_index(g3, index, direction) = None
                    THEN <<no_walk(g3)>>
                    ELSE <<connect_core(g3, offset_index(g3, index, direction),
                                        opposite(direction))>>

\* remove_tail_loop that stops after its first disconnect
remove_tail_loop_once(g, base_row, base_col, tail_row, tail_col) ==
    IF ~(tail_row # base_row \/ tail_col # base_col) THEN [g |-> g, ret |-> "true"]
    ELSE
    LET tail == g.cells[get_index(g, tail_row, tail_col)]
        direction == first_connected(tail, remove_tail_order)
    IN  IF direction = "None" THEN [g |-> g, ret |-> "false"]
        ELSE [g |-> try_disconnect(g, tail_row, tail_col, direction).g,
              ret |-> "true"]

RECURSIVE remove_tail_loop(_, _, _, _, _)
\* the while loop of remove_tail
remove_tail_loop(g, base_row, base_col, tail_row, tail_col) ==
    IF ~(tail_row # base_row \/ tail_col # base_col) THEN [g |-> g, ret |-> "true"]
    ELSE
    LET tail == g.cells[get_index(g, tail_row, tail_col)]
        direction == first_connected(tail, remove_tail_order)
    IN  IF direction = "None" THEN [g |-> g, ret |-> "false"]
        ELSE
        LET r == try_disconnect(g, tail_row, tail_col, direction)
        IN  IF r.ret # "true" THEN [g |-> r.g, ret |-> "false"]
            ELSE
            LET rc == get_offset_row_col(r.g, tail_row, tail_col, direction)
            IN  IF rc[1] = None THEN [g |-> r.g, ret |-> "panic"]
                ELSE remove_tail_loop(r.g, base_row, base_col, rc[1], rc[2])

\* remove_tail without the comparison of the colors of base and tail
remove_tail_any_color(g, base_row, base_col, tail_row, tail_col) ==
    LET tail_index == get_index(g, tail_row, tail_col)
        base_index == get_index(g, base_row, base_col)
    IN  IF tail_index = None THEN [g |-> g, ret |-> "false"]
        ELSE IF num_connections(g.cells[tail_index]) # 1 THEN [g |-> g, ret |-> "false"]
        ELSE IF base_index = None THEN [g |-> g, ret |-> "false"]
        ELSE remove_tail_loop(g, base_row, base_col, tail_row, tail_col)

remove_tail(g, base_row, base_col, tail_row, tail_col) ==
    LET tail_index == get_index(g, tail_row, tail_col)
        base_index == get_index(g, base_row, base_col)
    IN  IF tail_index = None THEN [g |-> g, ret |-> "false"]
        ELSE IF num_connections(g.cells[tail_index]) # 1 THEN [g |-> g, ret |-> "false"]
        ELSE IF base_index = None THEN [g |-> g, ret |-> "false"]
        ELSE IF g.cells[base_index].color # g.cells[tail_index].color
        THEN [g |-> g, ret |-> "false"]
        ELSE remove_tail_loop(g, base_row, base_col, tail_row, tail_col)

(***************************************************************************)
(* The state machine: one action per public mutator of FlowGrid.           *)
(***************************************************************************)
\* the FlowGrid value held by the variables
Self ==
    [next_color_id |-> next_color_id,
     cells |-> cells,
     width |-> width,
     height |-> height,
     source_index |-> source_index]

\* the grid shapes <<width, height>> on which every sequence of calls is explored
TinyShapes == {<<1, 1>>, <<2, 1>>, <<1, 2>>}

\* the grid shapes explored for MaxStepsSmall calls
SmallShapes == {<<3, 1>>, <<1, 3>>}

\* the grid shapes explored for MaxStepsMedium calls
MediumShapes == {<<2, 2>>, <<4, 1>>}

\* the grid shapes explored for MaxStepsLarge calls, on the rows up to MaxRowLarge
LargeShapes == {<<3, 3>>}

\* the strip of five cells, explored for MaxStepsChain calls
ChainShapes == {<<5, 1>>}

\* the grid of three columns and two rows, explored for MaxStepsRing calls:
\* the smallest one with room for a cycle and cells off it
RingShapes == {<<3, 2>>}

\* the last row of grid g that a caller addresses
LastRow(g) ==
    IF <<g.width, g.height>> \in LargeShapes THEN MaxRowLarge ELSE g.height - 1

\* <<row, col>> arguments on grid g: the cells of the addressed rows, one
\* row below the grid and one column right of it
Positions(g) ==
    ((0 .. LastRow(g)) \X (0 .. (g.width - 1)))
    \cup {<<g.height, 0>>, <<0, g.width>>}

\* a fresh grid of width w and height h, no call made yet
Fresh(w, h) ==
    /\ next_color_id = with_size(w, h).next_color_id
    /\ cells = with_size(w, h).cells
    /\ width = with_size(w, h).width
    /\ height = with_size(w, h).height
    /\ source_index = with_size(w, h).source_index
    /\ returned = "true"
    /\ steps = 0

Init == \E s \in TinyShapes \cup SmallShapes \cup MediumShapes : Fresh(s[1], s[2])

InitLarge == \E s \in LargeShapes : Fresh(s[1], s[2])

InitChain == \E s \in ChainShapes \cup MediumShapes : Fresh(s[1], s[2])

InitGrid == \E s \in TinyShapes \cup MediumShapes : Fresh(s[1], s[2])

InitRing == \E s \in RingShapes : Fresh(s[1], s[2])

\* the number of calls explored on the grid
StepLimit ==
    IF <<width, height>> \in SmallShapes THEN MaxStepsSmall
    ELSE IF <<width, height>> \in MediumShapes THEN MaxStepsMedium
    ELSE IF <<width, height>> \in ChainShapes THEN MaxStepsChain
    ELSE IF <<width, height>> \in RingShapes THEN MaxStepsRing
    ELSE MaxStepsLarge

\* a public call with outcome r is made; a panic ends the program, so no
\* call follows one
Call(r) ==
    /\ returned # "panic"
    /\ IF <<width, height>> \in TinyShapes THEN TRUE ELSE steps < StepLimit
    /\ next_color_id' = r.g.next_color_id
    /\ cells' = r.g.cells
    /\ source_index' = r.g.source_index
    /\ returned' = r.ret
    /\ steps' = IF <<width, height>> \in TinyShapes THEN steps ELSE steps + 1
    /\ UNCHANGED <<width, height>>

PlaceSourceNewColor ==
    \E p \in Positions(Self) :
        /\ next_color_id <= MaxColorId
        /\ Call(try_set_new_source(Self, p[1], p[2]))

PlaceSourceExistingColor ==
    \E p \in Positions(Self), color_id \in 0 .. MaxColorId :
        Call(try_set_missing_source(Self, p[1], p[2], color_id))

RemoveSource ==
    \E p \in Positions(Self) :
        Call(try_remove_source(Self, p[1], p[2]))

Connect ==
    \E p \in Positions(Self), direction \in Direction :
        Call(try_connect(Self, p[1], p[2], direction))

Disconnect ==
    \E p \in Positions(Self), direction \in Direction :
        Call(try_disconnect(Self, p[1], p[2], direction))

RemoveTail ==
    \E base \in Positions(Self), tail \in Positions(Self) :
        Call(remove_tail(Self, base[1], base[2], tail[1], tail[2]))

Next ==
    \/ PlaceSourceNewColor
    \/ PlaceSourceExistingColor
    \/ RemoveSource
    \/ Connect
    \/ Disconnect
    \/ RemoveTail

Spec == Init /\ [][Next]_vars

\* the same calls on the larger grids
SpecLarge == InitLarge /\ [][Next]_vars

\* the same calls on the strip of five cells and the grids of MediumShapes
SpecChain == InitChain /\ [][Next]_vars

\* the same calls on the grids of TinyShapes and MediumShapes
SpecGrid == InitGrid /\ [][Next]_vars

\* the same calls on the grid of RingShapes
SpecRing == InitRing /\ [][Next]_vars

(***************************************************************************)
(* Vocabulary of the properties                                            *)
(***************************************************************************)
\* the cell indices of the grid
Cells == 0 .. (width * height - 1)

\* cells i and j are adjacent and each carries the flag toward the other
Linked(g, i, j) ==
    \E d \in Direction :
        /\ offset_index(g, i, d) = j
        /\ is_direction_connected(g.cells[i], d)
        /\ is_direction_connected(g.cells[j], opposite(d))

RECURSIVE Reach(_, _)
\* the cells of grid g joined to a cell of the set seen by a chain of links
Reach(g, seen) ==
    LET more == {j \in 0 .. (cells_len(g) - 1) : \E i \in seen : Linked(g, i, j)}
    IN  IF more \subseteq seen THEN seen ELSE Reach(g, seen \cup more)

\* cells i and j of grid g are joined by an unbroken chain of connections
Joined(g, i, j) == j \in Reach(g, {i})

\* the connection graph of grid g has a cycle: a nonempty set of cells each
\* linked to two cells of the set
HasCycle(g) ==
    \E S \in SUBSET (0 .. (cells_len(g) - 1)) :
        /\ S # {}
        /\ \A i \in S : Cardinality({j \in S : Linked(g, i, j)}) >= 2

(***************************************************************************)
(* C1. Degree invariant: in every reachable state every cell has at most 2 *)
(* connection flags set, and every source cell has at most 1.              *)
(***************************************************************************)
DegreeInvariant ==
    \A i \in Cells :
        /\ num_connections(cells[i]) <= 2
        /\ cells[i].is_source => num_connections(cells[i]) <= 1

\* a cell with two connections next to a connected source
DegreeWitness ==
    \E i, j \in Cells :
        /\ num_connections(cells[i]) = 2
        /\ cells[j].is_source /\ num_connections(cells[j]) = 1
        /\ Linked(Self, i, j)

(***************************************************************************)
(* C2. Symmetry invariant: in every reachable state a cell carries the     *)
(* flag toward direction D iff it has a neighbor in direction D and that   *)
(* neighbor carries the flag toward opposite(D); no cell is connected      *)
(* toward the edge of the grid.                                            *)
(***************************************************************************)
SymmetryInvariant ==
    \A i \in Cells, d \in Direction :
        is_direction_connected(cells[i], d)
        <=> /\ offset_index(Self, i, d) # None
            /\ is_direction_connected(cells[offset_index(Self, i, d)], opposite(d))

\* a path cut in the middle by a disconnect: two adjacent cells of one color
\* that carry no flag toward each other and one flag each toward their halves
SymmetryWitness ==
    /\ returned = "true"
    /\ \E i \in Cells, e \in Direction :
        LET k == offset_index(Self, i, e)
        IN  /\ k # None
            /\ ~is_direction_connected(cells[i], e)
            /\ ~is_direction_connected(cells[k], opposite(e))
            /\ cells[k].color = cells[i].color
            /\ num_connections(cells[i]) = 1
            /\ num_connections(cells[k]) = 1

(***************************************************************************)
(* C3. Color coherence: in every reachable state any two cells joined by   *)
(* an unbroken chain of connections carry identical color values; every    *)
(* pair of adjacent connected cells has equal color.                       *)
(***************************************************************************)
ColorCoherence ==
    \A i, j \in Cells : Joined(Self, i, j) => cells[i].color = cells[j].color

\* a chain of three cells that a propagation walk has recolored
ColorCoherenceWitness ==
    \E i, j, k \in Cells :
        /\ i # k
        /\ Linked(Self, i, j) /\ Linked(Self, j, k)
        /\ cells[i].color = Colored(1)
        /\ cells[k].color = Colored(1)
        /\ ~cells[j].is_source

(***************************************************************************)
(* C4. Path-shape invariant: in every reachable state the connection graph *)
(* contains no cycle, and every source cell that has a connection is an    *)
(* endpoint of its path (it has exactly one connection).                   *)
(***************************************************************************)
PathShapeInvariant ==
    /\ ~HasCycle(Self)
    /\ \A i \in Cells :
        cells[i].is_source /\ num_connections(cells[i]) > 0
        => num_connections(cells[i]) = 1

(***************************************************************************)
(* C5. Failure atomicity: in every reachable state, a call of any public   *)
(* mutator that returns false leaves the whole grid (cells, source         *)
(* registry and next_color_id) exactly as it was before the call.          *)
(***************************************************************************)
\* the outcome r of a call on the current grid is not a failure that changed it
Atomic(r) == r.ret = "false" => r.g = Self

FailureAtomicity ==
    /\ \A p \in Positions(Self) :
        /\ Atomic(try_set_new_source(Self, p[1], p[2]))
        /\ Atomic(try_remove_source(Self, p[1], p[2]))
        /\ \A color_id \in 0 .. MaxColorId :
            Atomic(try_set_missing_source(Self, p[1], p[2], color_id))
        /\ \A d \in Direction :
            /\ Atomic(try_connect(Self, p[1], p[2], d))
            /\ Atomic(try_disconnect(Self, p[1], p[2], d))
    /\ \A base \in Positions(Self), tail \in Positions(Self) :
        Atomic(remove_tail(Self, base[1], base[2], tail[1], tail[2]))

(***************************************************************************)
(* C6. Compatibility gate: in every reachable state, connect between two   *)
(* adjacent cells that carry different Colored ids returns false and       *)
(* changes nothing; no two connected adjacent cells carry different        *)
(* Colored ids.                                                            *)
(***************************************************************************)
\* cells i and j of the current grid carry Colored ids that differ
DifferentColored(i, j) ==
    /\ cells[i].color.tag = "Colored"
    /\ cells[j].color.tag = "Colored"
    /\ cells[i].color.id # cells[j].color.id

CompatibilityGate ==
    /\ \A p \in Positions(Self), d \in Direction :
        LET i == get_index(Self, p[1], p[2])
            j == get_offset_index(Self, p[1], p[2], d)
        IN  (i # None /\ j # None /\ DifferentColored(i, j))
            => try_connect(Self, p[1], p[2], d) = [g |-> Self, ret |-> "false"]
    /\ \A i, j \in Cells : Linked(Self, i, j) => ~DifferentColored(i, j)

\* two adjacent cells of different Colored ids that both have spare capacity
\* and are not connected: only the color check stands between them
CompatibilityGateWitness ==
    \E p \in Positions(Self), d \in Direction :
        LET i == get_index(Self, p[1], p[2])
            j == get_offset_index(Self, p[1], p[2], d)
        IN  /\ i # None /\ j # None
            /\ DifferentColored(i, j)
            /\ has_open_connections(cells[i]) /\ has_open_connections(cells[j])
            /\ num_connections(cells[i]) = 1
            /\ try_connect(Self, p[1], p[2], d).ret = "false"

(***************************************************************************)
(* C7. Connect/disconnect round trip.                                      *)
(***************************************************************************)
\* the color and the four connection flags of a cell
ColorAndFlags(cell) ==
    <<cell.color, cell.is_connected_up, cell.is_connected_down,
      cell.is_connected_left, cell.is_connected_right>>

\* the four connection flags of a cell
Flags(cell) ==
    <<cell.is_connected_up, cell.is_connected_down,
      cell.is_connected_left, cell.is_connected_right>>

\* C7 as stated: whenever connect(row, col, dir) succeeds, disconnect(row,
\* col, dir) called right after it succeeds and leaves both endpoint cells
\* with exactly the color and the four flags they had before the connect.
RoundTripExact ==
    \A p \in Positions(Self), d \in Direction :
        LET c == try_connect(Self, p[1], p[2], d)
            u == try_disconnect(c.g, p[1], p[2], d)
            i == get_index(Self, p[1], p[2])
            j == get_offset_index(Self, p[1], p[2], d)
        IN  c.ret = "true"
            => /\ u.ret = "true"
               /\ ColorAndFlags(u.g.cells[i]) = ColorAndFlags(cells[i])
               /\ ColorAndFlags(u.g.cells[j]) = ColorAndFlags(cells[j])

\* C7 as amended: whenever connect(row, col, dir) succeeds, disconnect(row,
\* col, dir) called right after it succeeds and leaves both endpoint cells
\* with exactly the four flags they had before the connect; an endpoint
\* that is not a source and had no connection before the connect has its
\* color back, an endpoint that had a connection keeps the color the
\* connect gave it.
RoundTripFlags ==
    \A p \in Positions(Self), d \in Direction :
        LET c == try_connect(Self, p[1], p[2], d)
            u == try_disconnect(c.g, p[1], p[2], d)
            i == get_index(Self, p[1], p[2])
            j == get_offset_index(Self, p[1], p[2], d)
        IN  c.ret = "true"
            => /\ u.ret = "true"
               /\ \A e \in {i, j} :
                   /\ Flags(u.g.cells[e]) = Flags(cells[e])
                   /\ (~cells[e].is_source /\ num_connections(cells[e]) = 0)
                      => u.g.cells[e].color = cells[e].color
                   /\ num_connections(cells[e]) > 0
                      => u.g.cells[e].color = c.g.cells[e].color

\* a connect that succeeds between a loose cell, which it recolors, and the
\* end of a path, which keeps the flood's color after the disconnect
RoundTripWitness ==
    \E p \in Positions(Self), d \in Direction :
        LET c == try_connect(Self, p[1], p[2], d)
            u == try_disconnect(c.g, p[1], p[2], d)
            i == get_index(Self, p[1], p[2])
            j == get_offset_index(Self, p[1], p[2], d)
        IN  /\ c.ret = "true"
            /\ num_connections(cells[i]) = 0 /\ ~cells[i].is_source
            /\ c.g.cells[i].color # cells[i].color
            /\ u.g.cells[i].color = cells[i].color
            /\ num_connections(cells[j]) = 1
            /\ u.ret = "true"

(***************************************************************************)
(* C8. Propagation convergence on a strip.                                 *)
(***************************************************************************)
\* the grid is a strip of n >= 2 cells, one row or one column
IsStrip(w, h) == (w = 1 \/ h = 1) /\ w * h >= 2

RECURSIVE StripChain(_, _, _, _)
\* the strip of width w and height h after place_source_new_color on an end
\* cell (cell 0 if fwd, the last cell otherwise) and k connect calls made
\* cell by cell toward the other end; ok tells that every call returned true
StripChain(w, h, fwd, k) ==
    IF k = 0
    THEN LET start == IF fwd THEN 0 ELSE w * h - 1
             r == try_set_new_source(with_size(w, h), start \div w, start % w)
         IN  [g |-> r.g, ok |-> r.ret = "true"]
    ELSE LET prev == StripChain(w, h, fwd, k - 1)
             from == IF fwd THEN k - 1 ELSE w * h - k
             toward == IF h = 1 THEN (IF fwd THEN "Right" ELSE "Left")
                       ELSE (IF fwd THEN "Down" ELSE "Up")
             r == try_connect(prev.g, from \div w, from % w, toward)
         IN  [g |-> r.g, ok |-> prev.ok /\ r.ret = "true"]

\* the strip once the whole chain is drawn
StripDrawn(w, h, fwd) == StripChain(w, h, fwd, w * h - 1)

\* the drawn strip after remove_source on the end cell that holds the source
StripRemoved(w, h, fwd) ==
    LET start == IF fwd THEN 0 ELSE w * h - 1
    IN  try_remove_source(StripDrawn(w, h, fwd).g, start \div w, start % w)

\* C8: on a fresh strip, after place_source_new_color on an end cell and
\* connect calls cell by cell toward the other end, every cell carries the
\* Colored id of that source; once that source is removed every cell
\* carries an Uncolored value and these values are all equal.
PropagationConvergence ==
    IsStrip(width, height) =>
        \A fwd \in BOOLEAN :
            LET start == IF fwd THEN 0 ELSE width * height - 1
                drawn == StripDrawn(width, height, fwd)
                removed == StripRemoved(width, height, fwd)
            IN  /\ Self = drawn.g
                   => /\ drawn.ok
                      /\ cells[start].is_source
                      /\ cells[start].color.tag = "Colored"
                      /\ \A i \in Cells : cells[i].color = cells[start].color
                /\ Self = removed.g
                   => /\ removed.ret = "true"
                      /\ \A i \in Cells : cells[i].color.tag = "Empty"
                      /\ \A i, j \in Cells : cells[i].color = cells[j].color

\* a strip of at least three cells after the source of its drawn chain is removed
PropagationConvergenceWitness ==
    /\ IsStrip(width, height)
    /\ width * height >= 3
    /\ returned = "true"
    /\ \E fwd \in BOOLEAN :
        /\ Self = StripRemoved(width, height, fwd).g
        /\ \A i \in Cells : num_connections(cells[i]) >= 1

(***************************************************************************)
(* C9. End-to-end scenario on a fresh 3x3 grid.                            *)
(***************************************************************************)
\* place_source_new_color(0,0) on the fresh 3x3 grid
Scenario1 == try_set_new_source(with_size(3, 3), 0, 0)

\* then connect(0,0,Right)
Scenario2 == try_connect(Scenario1.g, 0, 0, "Right")

\* then place_source_new_color(0,2)
Scenario3 == try_set_new_source(Scenario2.g, 0, 2)

\* then connect(0,1,Right)
Scenario4 == try_connect(Scenario3.g, 0, 1, "Right")

\* what C9 and its amendment share: place_source_new_color(0,0) assigns id 0
\* and makes (0,0) a source colored 0; connect(0,0,Right) succeeds and makes
\* (0,1) Colored(0)
ScenarioStart ==
    /\ Self = Scenario1.g
       => /\ Scenario1.ret = "true"
          /\ cells[0].is_source
          /\ cells[0].color = Colored(0)
    /\ Self = Scenario2.g
       => /\ Scenario2.ret = "true"
          /\ cells[1].color = Colored(0)

\* C9 as stated: ... place_source_new_color(0,2) then assigns id 1 to (0,2),
\* and the following connect(0,1,Right) returns false.
EndToEndAsStated ==
    (width = 3 /\ height = 3) =>
        /\ ScenarioStart
        /\ Self = Scenario3.g
           => /\ Scenario3.ret = "true"
              /\ cells[2].is_source
              /\ cells[2].color = Colored(1)
              /\ try_connect(Self, 0, 1, "Right").ret = "false"

\* C9 as amended: ... place_source_new_color(0,2) then assigns id 0 again,
\* the second source of color 0, and moves next_color_id to 1; the following
\* connect(0,1,Right) returns true and links (0,1) and (0,2), both Colored(0).
EndToEndScenario ==
    (width = 3 /\ height = 3) =>
        /\ ScenarioStart
        /\ Self = Scenario3.g
           => /\ Scenario3.ret = "true"
              /\ cells[2].is_source
              /\ cells[2].color = Colored(0)
              /\ next_color_id = 1
              /\ try_connect(Self, 0, 1, "Right").ret = "true"
        /\ Self = Scenario4.g
           => /\ Linked(Self, 1, 2)
              /\ cells[1].color = Colored(0)
              /\ cells[2].color = Colored(0)

\* the 3x3 grid after the four calls of the scenario
EndToEndWitness ==
    /\ width = 3 /\ height = 3
    /\ returned = "true"
    /\ Self = Scenario4.g
    /\ Linked(Self, 0, 1)

(***************************************************************************)
(* C10. Source-id reuse: whenever remove_source succeeds on a source of    *)
(* color id c, next_color_id afterwards is the minimum of c and its        *)
(* previous value; when the removed source had id 0, the next successful   *)
(* place_source_new_color assigns id 0.                                    *)
(***************************************************************************)
Min(a, b) == IF a < b THEN a ELSE b

SourceIdReuse ==
    \A p \in Positions(Self) :
        LET i == get_index(Self, p[1], p[2])
            r == try_remove_source(Self, p[1], p[2])
        IN  r.ret = "true"
            => /\ r.g.next_color_id = Min(cells[i].color.id, next_color_id)
               /\ cells[i].color.id = 0
                  => \A q \in Positions(Self) :
                        LET n == try_set_new_source(r.g, q[1], q[2])
                        IN  n.ret = "true"
                            => n.g.cells[get_index(Self, q[1], q[2])].color = Colored(0)

\* sources of ids 0 and 1 have been placed, next_color_id is past 0, and
\* remove_source succeeds on the source of id 0, after which a cell is free
\* for place_source_new_color
SourceIdReuseWitness ==
    /\ next_color_id > 0
    /\ \E p \in Positions(Self), j \in Cells :
        LET i == get_index(Self, p[1], p[2])
            r == try_remove_source(Self, p[1], p[2])
        IN  /\ i # None
            /\ cells[i].is_source /\ cells[i].color = Colored(0)
            /\ cells[j].is_source /\ cells[j].color = Colored(1)
            /\ r.ret = "true"
            /\ r.g.next_color_id = 0
            /\ try_set_new_source(r.g, p[1], p[2]).ret = "true"

(***************************************************************************)
(* C11. Cursor invariant: in every reachable state next_color_id is the    *)
(* smallest color id whose registry entry holds fewer than 2 registered    *)
(* sources; an id with no entry counts as 0 sources.                       *)
(***************************************************************************)
\* the number of sources the registry of grid g lists under color_id
NumRegistered(g, color_id) ==
    LET entry == source_index_get(g, color_id)
    IN  (IF entry[1] # None THEN 1 ELSE 0) + (IF entry[2] # None THEN 1 ELSE 0)

CursorInvariant ==
    /\ NumRegistered(Self, next_color_id) < 2
    /\ \A c \in 0 .. (next_color_id - 1) : NumRegistered(Self, c) = 2

(***************************************************************************)
(* C12. Tail retraction success.                                           *)
(***************************************************************************)
RECURSIVE ReachAvoiding(_, _, _)
\* the cells of grid g joined to a cell of the set seen by a chain of links
\* that does not pass through the cell avoid
ReachAvoiding(g, seen, avoid) ==
    LET more == {j \in (0 .. (cells_len(g) - 1)) \ {avoid} :
                    \E i \in seen : Linked(g, i, j)}
    IN  IF more \subseteq seen THEN seen ELSE ReachAvoiding(g, seen \cup more, avoid)

\* the cells of the segment of the path of grid g from cell t to cell b, both
\* included: t, b and every cell whose removal separates t from b
Segment(g, t, b) ==
    LET joined == Reach(g, {t})
    IN  {k \in joined : k = t \/ k = b \/ b \notin ReachAvoiding(g, {t}, k)}

\* C12: in every reachable state where tail has exactly one connection and
\* base is joined to tail by a chain of connections, remove_tail(base, tail)
\* returns true; afterwards every cell of the segment but base has zero
\* connections and, if not a source, color Empty(own index), and a
\* connection flag is set iff it was set before and is not a link of the
\* segment.  On a strip of five cells drawn from a source at one end,
\* retracting from the far end to the source removes all four links.
TailRetraction ==
    /\ \A tail \in Positions(Self) :
        LET t == get_index(Self, tail[1], tail[2])
        IN  (t # None /\ num_connections(cells[t]) = 1)
            => LET joined == Reach(Self, {t})
               IN  \A base \in Positions(Self) :
                    LET b == get_index(Self, base[1], base[2])
                        r == remove_tail(Self, base[1], base[2], tail[1], tail[2])
                        segment == Segment(Self, t, b)
                    IN  (b # None /\ b \in joined)
                        => /\ r.ret = "true"
                           /\ \A k \in segment \ {b} :
                               /\ num_connections(r.g.cells[k]) = 0
                               /\ ~cells[k].is_source
                                  => r.g.cells[k].color = Empty(k)
                           /\ \A i \in Cells, d \in Direction :
                               is_direction_connected(r.g.cells[i], d)
                               <=> /\ is_direction_connected(cells[i], d)
                                   /\ ~(/\ i \in segment
                                        /\ offset_index(Self, i, d) \in segment)
    /\ (/\ IsStrip(width, height)
        /\ width * height = 5
        /\ \A i \in Cells : num_connections(cells[i]) >= 1)
       => \A fwd \in BOOLEAN :
            LET start == IF fwd THEN 0 ELSE 4
                far == IF fwd THEN 4 ELSE 0
                r == remove_tail(Self, start \div width, start % width,
                                 far \div width, far % width)
            IN  Self = StripDrawn(width, height, fwd).g
                => /\ r.ret = "true"
                   /\ \A i \in Cells : num_connections(r.g.cells[i]) = 0

\* the strip of five cells drawn from a source at one end, from which
\* remove_tail retracts the four links back to the source
TailRetractionWitness ==
    /\ IsStrip(width, height) /\ width * height = 5
    /\ returned = "true"
    /\ \E fwd \in BOOLEAN :
        LET start == IF fwd THEN 0 ELSE 4
            far == IF fwd THEN 4 ELSE 0
            r == remove_tail(Self, start \div width, start % width,
                             far \div width, far % width)
        IN  /\ Self = StripDrawn(width, height, fwd).g
            /\ \A i \in Cells \ {start, far} : num_connections(cells[i]) = 2
            /\ r.ret = "true"
            /\ \A i \in Cells : num_connections(r.g.cells[i]) = 0

(***************************************************************************)
(* C13. Tail retraction precondition: in every reachable state,            *)
(* remove_tail(base, tail) called with a tail whose number of connections  *)
(* is not exactly 1, or whose color differs from the color of base, or     *)
(* with either coordinate out of bounds, returns false and leaves the      *)
(* whole grid unchanged.                                                   *)
(***************************************************************************)
\* remove_tail(base, tail) on the current grid breaks a precondition
TailPreconditionBroken(base, tail) ==
    LET b == get_index(Self, base[1], base[2])
        t == get_index(Self, tail[1], tail[2])
    IN  \/ b = None
        \/ t = None
        \/ num_connections(cells[t]) # 1
        \/ cells[b].color # cells[t].color

TailPrecondition ==
    \A base \in Positions(Self), tail \in Positions(Self) :
        TailPreconditionBroken(base, tail)
        => remove_tail(Self, base[1], base[2], tail[1], tail[2])
           = [g |-> Self, ret |-> "false"]

\* remove_tail is refused for a tail in the middle of a path (two
\* connections) toward a base on that path, and for a loose end toward a
\* base of another color
TailPreconditionWitness ==
    /\ \E base \in Positions(Self), tail \in Positions(Self) :
        LET b == get_index(Self, base[1], base[2])
            t == get_index(Self, tail[1], tail[2])
        IN  /\ b # None /\ t # None /\ b # t
            /\ num_connections(cells[t]) = 2
            /\ Joined(Self, t, b)
            /\ remove_tail(Self, base[1], base[2], tail[1], tail[2]).ret = "false"
    /\ \E base \in Positions(Self), tail \in Positions(Self) :
        LET b == get_index(Self, base[1], base[2])
            t == get_index(Self, tail[1], tail[2])
        IN  /\ b # None /\ t # None
            /\ num_connections(cells[t]) = 1
            /\ cells[b].color # cells[t].color
            /\ remove_tail(Self, base[1], base[2], tail[1], tail[2]).ret = "false"

(***************************************************************************)
(* C14. No fatal state: in every reachable state every cell with           *)
(* is_source = true carries a Colored color, so that remove_source never   *)
(* aborts and no public call ends in a panic.                              *)
(***************************************************************************)
NoFatalState ==
    /\ \A i \in Cells : cells[i].is_source => cells[i].color.tag = "Colored"
    /\ returned # "panic"
    /\ \A p \in Positions(Self) : try_remove_source(Self, p[1], p[2]).ret # "panic"

(***************************************************************************)
(* C15. Source cap: in every reachable state, for every color id c at most *)
(* two cells have is_source = true and color Colored(c), and those cells   *)
(* are exactly the cells listed in the registry entry of c.                *)
(***************************************************************************)
\* the cells the registry of grid g lists under color_id
Registered(g, color_id) ==
    {source_index_get(g, color_id)[1], source_index_get(g, color_id)[2]} \ {None}

\* the source cells of grid g that carry Colored(color_id)
SourcesOf(g, color_id) ==
    {i \in 0 .. (cells_len(g) - 1) :
        g.cells[i].is_source /\ g.cells[i].color = Colored(color_id)}

SourceCap ==
    \A c \in 0 .. (MaxColorId + 1) :
        /\ Cardinality(SourcesOf(Self, c)) <= 2
        /\ SourcesOf(Self, c) = Registered(Self, c)

(***************************************************************************)
(* C16. are_connected correctness: in every reachable state and for every  *)
(* pair of in-bounds cells A and B, are_connected(A, B) returns true iff   *)
(* A = B or a chain of connection flags leads from A to B; the result is   *)
(* symmetric in A and B; and it returns false when A # B and either        *)
(* coordinate is out of bounds.                                            *)
(***************************************************************************)
AreConnectedCorrect ==
    \A p \in Positions(Self) :
        LET i == get_index(Self, p[1], p[2])
            joined == IF i = None THEN {} ELSE Reach(Self, {i})
        IN  \A q \in Positions(Self) :
                LET j == get_index(Self, q[1], q[2])
                    answer == are_cells_connected(Self, p[1], p[2], q[1], q[2])
                IN  /\ (i # None /\ j # None) => (answer <=> (i = j \/ j \in joined))
                    /\ answer = are_cells_connected(Self, q[1], q[2], p[1], p[2])
                    /\ (p # q /\ (i = None \/ j = None)) => ~answer

\* a path of three cells whose two ends are_connected finds connected, next
\* to a cell of the same color off the path, which it finds not connected
AreConnectedWitness ==
    \E p \in Positions(Self), q \in Positions(Self), o \in Positions(Self) :
        LET i == get_index(Self, p[1], p[2])
            j == get_index(Self, q[1], q[2])
            k == get_index(Self, o[1], o[2])
        IN  /\ i # None /\ j # None /\ k # None
            /\ i # j /\ ~Linked(Self, i, j)
            /\ are_cells_connected(Self, p[1], p[2], q[1], q[2])
            /\ cells[k].color = cells[i].color
            /\ ~are_cells_connected(Self, p[1], p[2], o[1], o[2])

(***************************************************************************)
(* C17. remove_source, surviving color.                                    *)
(***************************************************************************)
\* cell i of the current grid is a registered source of a color, has a
\* connection, and is joined to the other registered source of that color
SurvivingCase(i) ==
    /\ cells[i].is_source
    /\ cells[i].color.tag = "Colored"
    /\ num_connections(cells[i]) >= 1
    /\ i \in Registered(Self, cells[i].color.id)
    /\ \E j \in Registered(Self, cells[i].color.id) \ {i} : Joined(Self, i, j)

\* C17: when remove_source(row, col) is called on a registered source cell
\* that has a connection and is joined to the other registered source of its
\* color, the call returns true, clears that cell's is_source flag and its
\* registry slot, sets next_color_id to the smaller of itself and the color
\* id, and leaves every other registry entry, the color of every cell and
\* every connection flag unchanged.
SurvivingColor ==
    \A p \in Positions(Self) :
        LET i == get_index(Self, p[1], p[2])
            r == try_remove_source(Self, p[1], p[2])
            c == cells[i].color.id
        IN  (i # None /\ SurvivingCase(i))
            => /\ r.ret = "true"
               /\ r.g.cells = [cells EXCEPT ![i].is_source = FALSE]
               /\ Registered(r.g, c) = Registered(Self, c) \ {i}
               /\ Len(r.g.source_index) = Len(source_index)
               /\ \A k \in 0 .. (Len(source_index) - 1) :
                   k # c => source_index_get(r.g, k) = source_index_get(Self, k)
               /\ r.g.next_color_id = Min(c, next_color_id)

\* two registered sources of one color at the ends of a path of three cells
\* or more, one of which remove_source then removes
SurvivingColorWitness ==
    \E p \in Positions(Self) :
        LET i == get_index(Self, p[1], p[2])
            r == try_remove_source(Self, p[1], p[2])
        IN  /\ i # None
            /\ SurvivingCase(i)
            /\ \A j \in Registered(Self, cells[i].color.id) : ~Linked(Self, i, j)
            /\ r.ret = "true"
            /\ ~r.g.cells[i].is_source
            /\ r.g.cells[i].color = cells[i].color

(***************************************************************************)
(* C18. remove_source, decoloring: when remove_source(row, col) is called  *)
(* on a source cell that has zero connections, or that has a connection    *)
(* but is not joined to a remaining registered source of its color, then   *)
(* afterwards that cell and every cell on its path carry Empty(index of    *)
(* the removed cell), and no cell outside that path changes color.         *)
(***************************************************************************)
\* the registered sources of the color of cell i of the current grid, other
\* than cell i
RemainingSources(i) ==
    IF cells[i].color.tag = "Colored"
    THEN Registered(Self, cells[i].color.id) \ {i}
    ELSE {}

\* cell i of the current grid is a source with no connection, or a source
\* joined to no remaining registered source of its color
DecolorCase(i) ==
    /\ cells[i].is_source
    /\ \/ num_connections(cells[i]) = 0
       \/ \A j \in RemainingSources(i) : ~Joined(Self, i, j)

Decoloring ==
    \A p \in Positions(Self) :
        LET i == get_index(Self, p[1], p[2])
            r == try_remove_source(Self, p[1], p[2])
        IN  (i # None /\ DecolorCase(i))
            => LET path == Reach(Self, {i})
               IN  /\ r.ret = "true"
                   /\ \A k \in path : r.g.cells[k].color = Empty(i)
                   /\ \A k \in Cells \ path : r.g.cells[k].color = cells[k].color

(***************************************************************************)
(* C19. place_source acceptance: place_source_new_color(row, col) succeeds *)
(* iff the cell is in bounds, is not already a source, has at most 1       *)
(* connection, and its color is Empty or already Colored(next_color_id);   *)
(* on success the cell has is_source = true and color Colored(k), k the    *)
(* value next_color_id had before the call, and the registry entry of k    *)
(* lists the cell.                                                         *)
(***************************************************************************)
\* the cell at position p of the current grid meets the four conditions
Acceptable(p) ==
    LET i == get_index(Self, p[1], p[2])
    IN  /\ i # None
        /\ ~cells[i].is_source
        /\ Cardinality({d \in Direction : is_direction_connected(cells[i], d)}) <= 1
        /\ \/ cells[i].color.tag = "Empty"
           \/ cells[i].color = Colored(next_color_id)

PlaceAcceptance ==
    \A p \in Positions(Self) :
        LET i == get_index(Self, p[1], p[2])
            r == try_set_new_source(Self, p[1], p[2])
        IN  /\ r.ret = (IF Acceptable(p) THEN "true" ELSE "false")
            /\ Acceptable(p)
               => /\ r.g.cells[i].is_source
                  /\ r.g.cells[i].color = Colored(next_color_id)
                  /\ i \in Registered(r.g, next_color_id)

\* place_source_new_color is accepted on the loose end of a drawn path and
\* refused, for its two connections only, on a cell in the middle of it
PlaceAcceptanceWitness ==
    \E p \in Positions(Self), q \in Positions(Self) :
        LET i == get_index(Self, p[1], p[2])
            j == get_index(Self, q[1], q[2])
        IN  /\ i # None /\ j # None
            /\ num_connections(cells[i]) = 1
            /\ cells[i].color.tag = "Empty"
            /\ try_set_new_source(Self, p[1], p[2]).ret = "true"
            /\ num_connections(cells[j]) = 2
            /\ ~cells[j].is_source
            /\ cells[j].color.tag = "Empty"
            /\ try_set_new_source(Self, q[1], q[2]).ret = "false"

(***************************************************************************)
(* C20. place_source propagation: when place_source_new_color or           *)
(* place_source_existing_color succeeds on a cell that already has one     *)
(* connection, then afterwards every cell on the path of that cell carries *)
(* Colored(id) of the newly placed source, no connection flag has changed  *)
(* and no cell outside the path has changed.                               *)
(***************************************************************************)
\* the outcome r of placing a source of color_id on cell i of the current
\* grid, when it is a success on a cell with one connection, recolors the
\* path of i and changes nothing else
Propagated(r, i, color_id) ==
    (r.ret = "true" /\ num_connections(cells[i]) = 1)
    => LET path == Reach(Self, {i})
       IN  /\ \A k \in path : r.g.cells[k].color = Colored(color_id)
           /\ \A k \in Cells : Flags(r.g.cells[k]) = Flags(cells[k])
           /\ \A k \in Cells \ path : r.g.cells[k] = cells[k]

PlacePropagation ==
    \A p \in Positions(Self) :
        LET i == get_index(Self, p[1], p[2])
        IN  i # None
            => /\ Propagated(try_set_new_source(Self, p[1], p[2]), i, next_color_id)
               /\ \A color_id \in 0 .. MaxColorId :
                   Propagated(try_set_missing_source(Self, p[1], p[2], color_id),
                              i, color_id)

\* a source is placed on the loose end of an Uncolored path of three cells
\* or more, with a cell left outside the path
PlacePropagationWitness ==
    \E p \in Positions(Self) :
        LET i == get_index(Self, p[1], p[2])
            r == try_set_new_source(Self, p[1], p[2])
        IN  /\ i # None
            /\ num_connections(cells[i]) = 1
            /\ cells[i].color.tag = "Empty"
            /\ Cardinality(Reach(Self, {i})) >= 3
            /\ Reach(Self, {i}) # Cells
            /\ r.ret = "true"
            /\ \A k \in Reach(Self, {i}) : r.g.cells[k].color = Colored(next_color_id)

(***************************************************************************)
(* C21. connect acceptance and flooding: connect(row, col, dir) succeeds   *)
(* iff both endpoints exist, both have spare degree capacity (fewer than 2 *)
(* connections, and 0 if a source), the edge is not already connected, and *)
(* the colors are compatible; on success both symmetric flags are set, and *)
(* if exactly one endpoint was Colored(id) then afterwards every cell on   *)
(* the merged path carries Colored(id) while no cell off the merged path   *)
(* changes.                                                                *)
(***************************************************************************)
\* cell has spare degree capacity
SpareCapacity(cell) ==
    /\ num_connections(cell) < 2
    /\ cell.is_source => num_connections(cell) = 0

\* colors a and b are compatible: not two Colored values of different ids
Compatible(a, b) == ~(a.tag = "Colored" /\ b.tag = "Colored" /\ a.id # b.id)

\* connect(p, d) on the current grid meets the four conditions
Connectable(p, d) ==
    LET i == get_index(Self, p[1], p[2])
        j == get_offset_index(Self, p[1], p[2], d)
    IN  /\ i # None
        /\ j # None
        /\ SpareCapacity(cells[i])
        /\ SpareCapacity(cells[j])
        /\ ~is_direction_connected(cells[i], d)
        /\ ~is_direction_connected(cells[j], opposite(d))
        /\ Compatible(cells[i].color, cells[j].color)

ConnectAcceptance ==
    \A p \in Positions(Self), d \in Direction :
        LET i == get_index(Self, p[1], p[2])
            j == get_offset_index(Self, p[1], p[2], d)
            r == try_connect(Self, p[1], p[2], d)
        IN  /\ r.ret = (IF Connectable(p, d) THEN "true" ELSE "false")
            /\ Connectable(p, d)
               => /\ is_direction_connected(r.g.cells[i], d)
                  /\ is_direction_connected(r.g.cells[j], opposite(d))
                  /\ (cells[i].color.tag = "Colored") # (cells[j].color.tag = "Colored")
                     => LET colored == IF cells[i].color.tag = "Colored"
                                       THEN cells[i].color ELSE cells[j].color
                            merged == Reach(Self, {i, j})
                        IN  /\ \A k \in merged : r.g.cells[k].color = colored
                            /\ \A k \in Cells \ merged : r.g.cells[k] = cells[k]

\* connect joins the end of a Colored path to the end of an Uncolored path of
\* two cells or more, from the Colored side and from the Uncolored side
ConnectAcceptanceWitness ==
    \E p \in Positions(Self), q \in Positions(Self), d \in Direction :
        LET i == get_index(Self, p[1], p[2])
            j == get_offset_index(Self, p[1], p[2], d)
        IN  /\ i # None /\ j # None
            /\ get_index(Self, q[1], q[2]) = j
            /\ cells[i].color.tag = "Colored"
            /\ cells[j].color.tag = "Empty"
            /\ num_connections(cells[j]) = 1
            /\ try_connect(Self, p[1], p[2], d).ret = "true"
            /\ try_connect(Self, q[1], q[2], opposite(d)).ret = "true"
            /\ \A k \in Reach(Self, {j}) :
                try_connect(Self, q[1], q[2], opposite(d)).g.cells[k].color
                = cells[i].color

(***************************************************************************)
(* C22. disconnect effect and frame: a successful disconnect(row, col,     *)
(* dir) clears exactly the two symmetric flags of that edge; each of the   *)
(* two endpoint cells is reset to Empty(own index) iff it now has zero     *)
(* connections and is not a source; no other cell changes, and the source  *)
(* registry and next_color_id are unchanged.                               *)
(***************************************************************************)
\* what the claim says of endpoint e, which loses the flag toward d
EndpointAfterCut(e, d) ==
    LET cut == remove_connection(cells[e], d)
    IN  IF num_connections(cut) = 0 /\ ~cut.is_source
        THEN [cut EXCEPT !.color = Empty(e)]
        ELSE cut

DisconnectFrame ==
    \A p \in Positions(Self), d \in Direction :
        LET i == get_index(Self, p[1], p[2])
            j == get_offset_index(Self, p[1], p[2], d)
            r == try_disconnect(Self, p[1], p[2], d)
        IN  r.ret = "true"
            => /\ is_direction_connected(cells[i], d)
               /\ is_direction_connected(cells[j], opposite(d))
               /\ r.g.cells[i] = EndpointAfterCut(i, d)
               /\ r.g.cells[j] = EndpointAfterCut(j, opposite(d))
               /\ \A k \in Cells \ {i, j} : r.g.cells[k] = cells[k]
               /\ r.g.source_index = source_index
               /\ r.g.next_color_id = next_color_id

\* a Colored path of three cells or more is cut at its last edge: the cell
\* cut off is reset, the end of the rest keeps its Colored value
DisconnectFrameWitness ==
    \E p \in Positions(Self), d \in Direction :
        LET i == get_index(Self, p[1], p[2])
            j == get_offset_index(Self, p[1], p[2], d)
            r == try_disconnect(Self, p[1], p[2], d)
        IN  /\ i # None /\ j # None
            /\ r.ret = "true"
            /\ cells[i].color.tag = "Colored"
            /\ num_connections(cells[i]) = 2
            /\ num_connections(cells[j]) = 1 /\ ~cells[j].is_source
            /\ r.g.cells[i].color = cells[i].color
            /\ r.g.cells[j].color = Empty(j)

(***************************************************************************)
(* C23. Colored values and disconnect.                                     *)
(***************************************************************************)
\* every cell that carries a Colored value in the current grid carries the
\* same value in grid g
ColoredKept(g) ==
    \A k \in Cells :
        cells[k].color.tag = "Colored" => g.cells[k].color = cells[k].color

\* every cell that carries a Colored value in the current grid carries the
\* same value in grid g, or is in grid g a cell with no connection that is
\* not a source and carries Empty(own index)
ColoredKeptOrLoose(g) ==
    \A k \in Cells :
        cells[k].color.tag = "Colored"
        => \/ g.cells[k].color = cells[k].color
           \/ /\ num_connections(cells[k]) >= 1
              /\ num_connections(g.cells[k]) = 0
              /\ ~g.cells[k].is_source
              /\ g.cells[k].color = Empty(k)

\* remove_source does not change a Colored value unless it decolors the
\* removed cell
RemoveSourceKeepsColored ==
    \A p \in Positions(Self) :
        LET i == get_index(Self, p[1], p[2])
            r == try_remove_source(Self, p[1], p[2])
        IN  (i # None /\ r.g.cells[i].color = cells[i].color) => ColoredKept(r.g)

\* C23 as stated: for every reachable state and every disconnect call, every
\* cell that carried Colored(id) before the call still carries Colored(id)
\* after it; a Colored value changes only during connect, place_source_* or
\* the decoloring branch of remove_source (so not during remove_tail either).
ColoredNeverChangedByDisconnect ==
    /\ \A p \in Positions(Self), d \in Direction :
        ColoredKept(try_disconnect(Self, p[1], p[2], d).g)
    /\ \A base \in Positions(Self), tail \in Positions(Self) :
        ColoredKept(remove_tail(Self, base[1], base[2], tail[1], tail[2]).g)
    /\ RemoveSourceKeepsColored

\* C23 as amended: for every reachable state and every disconnect call, a
\* cell that carried Colored(id) before the call still carries Colored(id)
\* after it unless it is an endpoint of the cut edge that the call leaves
\* with no connection and that is not a source, which is reset to Empty(own
\* index); the same holds of the cells remove_tail disconnects; apart from
\* that a Colored value changes only during connect, place_source_* or the
\* decoloring branch of remove_source.
ColoredChangedByDisconnectOnlyWhenLoose ==
    /\ \A p \in Positions(Self), d \in Direction :
        LET i == get_index(Self, p[1], p[2])
            j == get_offset_index(Self, p[1], p[2], d)
            r == try_disconnect(Self, p[1], p[2], d)
        IN  /\ ColoredKeptOrLoose(r.g)
            /\ \A k \in Cells \ {i, j} : r.g.cells[k].color = cells[k].color
    /\ \A base \in Positions(Self), tail \in Positions(Self) :
        ColoredKeptOrLoose(remove_tail(Self, base[1], base[2], tail[1], tail[2]).g)
    /\ RemoveSourceKeepsColored

\* a source is cut from the only other cell of its path: the source keeps
\* its Colored value, the other cell loses it
ColoredChangedByDisconnectWitness ==
    \E p \in Positions(Self), d \in Direction :
        LET i == get_index(Self, p[1], p[2])
            j == get_offset_index(Self, p[1], p[2], d)
            r == try_disconnect(Self, p[1], p[2], d)
        IN  /\ i # None /\ j # None
            /\ r.ret = "true"
            /\ cells[i].is_source
            /\ cells[j].color.tag = "Colored"
            /\ ~cells[j].is_source
            /\ num_connections(cells[j]) = 1
            /\ r.g.cells[i].color = cells[i].color
            /\ r.g.cells[j].color = Empty(j)

(***************************************************************************)
(* C24. Uncolored equality means same component: in every reachable state  *)
(* two distinct cells that carry the same Uncolored disambiguator are      *)
(* joined by a chain of connections.                                       *)
(***************************************************************************)
UncoloredSameComponent ==
    \A i, j \in Cells :
        (i # j /\ cells[i].color.tag = "Empty" /\ cells[i].color = cells[j].color)
        => Joined(Self, i, j)

(***************************************************************************)
(* C25. No orphaned color: in every reachable state every non-source cell  *)
(* that carries Colored(id) is joined by a chain of connections to a       *)
(* source cell of color id.                                                *)
(***************************************************************************)
NoOrphanedColor ==
    \A i \in Cells :
        (~cells[i].is_source /\ cells[i].color.tag = "Colored")
        => \E j \in Reach(Self, {i}) :
            cells[j].is_source /\ cells[j].color = cells[i].color

(***************************************************************************)
(* C26. Registry overflow policy.                                          *)
(***************************************************************************)
\* the outcome r of placing a source of color_id on the current grid is a
\* success on an entry that holds two cells
Overflows(r, color_id) ==
    /\ r.ret = "true"
    /\ source_index_get(Self, color_id)[1] # None
    /\ source_index_get(Self, color_id)[2] # None

\* C26 as stated, for the outcome r of placing a source of color_id on cell
\* i: the entry (s0, s1) becomes (s1, i), and the evicted cell s0 keeps
\* is_source = true, its color and its connection flags unchanged
EvictsUnchanged(r, i, color_id) ==
    LET entry == source_index_get(Self, color_id)
    IN  Overflows(r, color_id)
        => /\ source_index_get(r.g, color_id) = <<entry[2], i>>
           /\ r.g.cells[entry[1]].is_source
           /\ r.g.cells[entry[1]] = cells[entry[1]]

EvictsQuietly(r, i, color_id) ==
    LET entry == source_index_get(Self, color_id)
        s0 == entry[1]
    IN  Overflows(r, color_id)
        => /\ source_index_get(r.g, color_id) = <<entry[2], i>>
           /\ s0 # i
              => /\ r.g.cells[s0].is_source = cells[s0].is_source
                 /\ Flags(r.g.cells[s0]) = Flags(cells[s0])
                 /\ \/ r.g.cells[s0].color = cells[s0].color
                    \/ /\ Joined(Self, s0, i)
                       /\ r.g.cells[s0].color = Colored(color_id)

UncoloredMergeCase(p, d) ==
    LET i == get_index(Self, p[1], p[2])
        j == get_offset_index(Self, p[1], p[2], d)
    IN  /\ try_connect(Self, p[1], p[2], d).ret = "true"
        /\ cells[i].color.tag = "Empty"
        /\ cells[j].color.tag = "Empty"
        /\ cells[i].color # cells[j].color

UncoloredMerge ==
    \A p \in Positions(Self), d \in Direction :
        UncoloredMergeCase(p, d)
        => LET i == get_index(Self, p[1], p[2])
               j == get_offset_index(Self, p[1], p[2], d)
               r == try_connect(Self, p[1], p[2], d)
               merged == Reach(r.g, {i})
           IN  /\ merged = Reach(Self, {i, j})
               /\ \A k \in merged : r.g.cells[k].color = cells[j].color
               /\ \A k \in Cells \ merged : r.g.cells[k] = cells[k]

\* connect joins the ends of two Uncolored paths of two cells each, of
\* different disambiguators
UncoloredMergeWitness ==
    \E p \in Positions(Self), d \in Direction :
        /\ UncoloredMergeCase(p, d)
        /\ LET i == get_index(Self, p[1], p[2])
               j == get_offset_index(Self, p[1], p[2], d)
           IN  /\ Cardinality(Reach(Self, {i})) >= 2
               /\ Cardinality(Reach(Self, {j})) >= 2
               /\ \A k \in Reach(Self, {i}) : cells[k].color = cells[i].color
               /\ \A k \in Reach(Self, {j}) : cells[k].color = cells[j].color

(***************************************************************************)
(* C28. Propagation terminates: in every state reachable by any sequence   *)
(* of public mutator calls, each propagation walk (connect_core) started   *)
(* by connect, place_source_* or remove_source ends after finitely many    *)
(* steps, writing each cell's color at most once per walk and never        *)
(* indexing a neighbor that does not exist.                                *)
(***************************************************************************)
\* the color ids a placement can be called with
ColorIds == 0 .. MaxColorId

\* walk w, started on a grid of n cells, ended within n iterations, wrote
\* no cell twice and met no missing neighbor
WalkEnds(w, n) ==
    /\ ~w.panic
    /\ ~w.twice
    /\ w.iters <= n
    /\ Cardinality(w.written) <= w.iters

\* every walk of the sequence ws ends, and the last one leaves the grid
\* that the operation, of result r, returns
WalksEnd(ws, r) ==
    /\ \A k \in 1 .. Len(ws) : WalkEnds(ws[k], cells_len(Self))
    /\ ws # <<>> => r.ret = "true" /\ ws[Len(ws)].g.cells = r.g.cells

PropagationTerminates ==
    \A p \in Positions(Self) :
        /\ \A d \in Direction :
               WalksEnd(try_connect_walks(Self, p[1], p[2], d),
                        try_connect(Self, p[1], p[2], d))
        /\ \A id \in ColorIds :
               WalksEnd(try_set_missing_source_walks(Self, p[1], p[2], id),
                        try_set_missing_source(Self, p[1], p[2], id))
        /\ WalksEnd(try_set_missing_source_walks(Self, p[1], p[2], next_color_id),
                    try_set_new_source(Self, p[1], p[2]))
        /\ WalksEnd(try_remove_source_walks(Self, p[1], p[2]),
                    try_remove_source(Self, p[1], p[2]))

\* a connect starts a walk that writes three cells, and a placement starts a
\* walk that writes two
PropagationTerminatesWitness ==
    /\ \E p \in Positions(Self), d \in Direction :
           LET ws == try_connect_walks(Self, p[1], p[2], d)
           IN  /\ Len(ws) = 2
               /\ Cardinality(ws[1].written) >= 3
    /\ \E p \in Positions(Self), id \in ColorIds :
           LET ws == try_set_missing_source_walks(Self, p[1], p[2], id)
           IN  /\ Len(ws) = 1
               /\ Cardinality(ws[1].written) >= 2

(***************************************************************************)
(* C29. Connectivity walk terminates: in every state reachable by any      *)
(* sequence of public mutator calls, the states in which the connection    *)
(* graph contains a cycle included, the depth-first walk of are_connected  *)
(* (no immediate backtracking, no return to the origin) terminates for     *)
(* every pair of cells, and remove_source, which calls it, comes back from *)
(* that call and returns.                                                  *)
(***************************************************************************)
\* the calls that a walk on grid g never exceeds: the first one, and one per
\* cell along each of the two connections of the first cell
MaxCalls(g) == 2 * cells_len(g) + 1

\* the walk from cell i to cell j of the current grid, its calls counted
WalkCalls(i, j) ==
    are_cells_connected_core_calls(Self, None, i, "None", j, MaxCalls(Self))

\* remove_source(p) on the current grid gets as far as asking whether its
\* cell is connected to the source that stays registered
RemoveConsultsWalk(p) ==
    LET i == get_index(Self, p[1], p[2])
    IN  /\ i # None
        /\ cells[i].is_source
        /\ cells[i].color.tag = "Colored"
        /\ source_index_has(Self, cells[i].color.id)
        /\ num_connections(cells[i]) # 0
        /\ unregister_source(source_index[cells[i].color.id + 1], i)[1] # None

WalkTerminates ==
    /\ \A i \in Cells, j \in Cells :
           /\ ~WalkCalls(i, j).out
           /\ WalkCalls(i, j).found
              = are_cells_connected_core(Self, None, i, "None", j)
    /\ \A p \in Positions(Self) :
           RemoveConsultsWalk(p)
           => LET i == get_index(Self, p[1], p[2])
                  other == unregister_source(
                               source_index[cells[i].color.id + 1], i)[1]
              IN  /\ ~WalkCalls(i, other).out
                  /\ try_remove_source(Self, p[1], p[2]).ret = "true"

\* the grid holds a cycle, and the walk from a cell of the cycle to a cell
\* off it goes around the cycle in both directions before it gives up
WalkTerminatesWitness ==
    /\ HasCycle(Self)
    /\ \E i \in Cells, j \in Cells :
           /\ num_connections(cells[i]) = 2
           /\ ~Joined(Self, i, j)
           /\ ~WalkCalls(i, j).found
           /\ MaxCalls(Self) - WalkCalls(i, j).budget >= 9

====
